---- MODULE Spec2Model ----
(***************************************************************************)
(* Model of upsplusv5-battery-logger.py: the UPSplus v5 battery logger.    *)
(* The program parses its arguments, makes sure the csv log exists        *)
(* (create_file) and then loops: 254 single-byte register reads, two      *)
(* INA219 telemetry reads, print, append one csv row, sleep DELAY.        *)
(* Positions of the single thread of control are kept in pc; the files    *)
(* the program touches are kept in fs.                                    *)
(***************************************************************************)
EXTENDS Integers, Sequences, FiniteSets, TLC

VARIABLES
    pc,             \* position of the thread of control
    argv,           \* command line: [runonce, csvfile]
    runonce,        \* global runonce (line 53, set by parse_args)
    csv_file,       \* global csv_file (line 54, set by parse_args)
    STOP_ON_ERR,    \* global STOP_ON_ERR (line 43)
    T,              \* session timestamp (lines 45-46)
    fs,             \* file system: path -> [kind, rows]
    a_receive_buf,  \* local of main: the register snapshot being filled
    i,              \* loop variable of "for i in range(1, 255)"
    mainPower,      \* result of ina.power() held while csvdata is built
    csvdata,        \* local of main: the last record built
    printed,        \* last record written to stdout by main
    fdOpen,         \* number of open descriptors on the log file
    exc,            \* exception being handled by the bare except clause
    escaped,        \* exception that left main ("none" if none did)
    exitCode,       \* process exit status (-1 while running)
    len0,           \* rows in the log when the loop was entered
    successes,      \* iterations of this run that got past line 117
    sleeps,         \* completed time.sleep(DELAY) calls of this run
    faults,         \* faults swallowed since the last completed sleep
    calls,          \* path -> number of create_file calls made on it
    created,        \* paths whose file was created by create_file
    lastCall,       \* [path, raised] of the last create_file call
    iterLog,        \* rows of the log when the current iteration began
    iterReads,      \* bytes the bus answered in the current iteration
    iterTel,        \* <<power, current>> read in the current iteration
    iterPrinted     \* TRUE once line 114 has run in the current iteration

vars == <<pc, argv, runonce, csv_file, STOP_ON_ERR, T, fs, a_receive_buf, i,
          mainPower, csvdata, printed, fdOpen, exc, escaped, exitCode,
          len0, successes, sleeps, faults, calls, created, lastCall,
          iterLog, iterReads, iterTel, iterPrinted>>

sinkVars == <<calls, created, lastCall>>

iterVars == <<iterReads, iterTel, iterPrinted>>

(***************************************************************************)
(* Bounds of the model.                                                    *)
(***************************************************************************)
MaxAppends == 2     \* iterations a run may complete
MaxFaults == 3      \* consecutive swallowed faults that are explored
MaxCalls == 2       \* create_file calls per path that are explored

(***************************************************************************)
(* Program constants.                                                      *)
(***************************************************************************)
DELAY == 5
FirstReg == 1
\* variant of EndReg: range(1, 254)
EndReg_short == 255 - 1

EndReg == 255
NoValue == 0 - 1000000

Timestamps == {"2024-01-01_120000"}

\* the telemetry values are kept in tenths of a mW / mA
PowerVals == {123456}
CurrentVals == {0 - 3212}

\* bytes the device may answer for register r
RegVals(r) == IF r = 5 THEN {16, 255} ELSE {r % 256}

(***************************************************************************)
(* Paths.  A path is kept as the pair os.path.splitext() splits it into.   *)
(***************************************************************************)
DefaultPath(t) == [stem |-> "batt_log_" \o t, ext |-> ".csv"]
UpperCsv == [stem |-> "log", ext |-> ".CSV"]
NotCsv == [stem |-> "notes", ext |-> ".txt"]
NoArg == [stem |-> "", ext |-> ""]
ArgPaths == {UpperCsv, NotCsv}
Paths == ArgPaths \cup {DefaultPath(t) : t \in Timestamps}

\* str.lower() on the extensions that occur
Lower(s) == IF s = ".CSV" THEN ".csv" ELSE s

\* os.path.splitext(p)[-1]
SplitExt(p) == p.ext

(***************************************************************************)
(* Files.                                                                  *)
(***************************************************************************)
NoFile == [kind |-> "none", rows |-> <<>>]
Dir == [kind |-> "dir", rows |-> <<>>]
File(rows) == [kind |-> "file", rows |-> rows]

\* os.path.isfile
isfile(f, p) == f[p].kind = "file"

\* csv.writer(..., quoting=csv.QUOTE_NONNUMERIC).writerow on a list of str
Quote(s) == "\"" \o s \o "\""
writerow(rows, data) == Append(rows, [k \in 1..Len(data) |-> Quote(data[k])])

csvtitles == <<"RegisterTimestamp", "Uptime (s)", "Volts (mV)", "Power (mW)",
               "Remaining %", "Battery Current (mA)", "Batt. Temp (oC)">>

OldRow == <<"2023-12-31_235959", "7", "4100", "900", "50", "-12", "30">>


(***************************************************************************)
(* Formatting and decoding (lines 106-113).                                *)
(***************************************************************************)
Digits == <<"0", "1", "2", "3", "4", "5", "6", "7", "8", "9">>

RECURSIVE DecStr(_)
DecStr(n) == IF n < 10 THEN Digits[n + 1]
             ELSE DecStr(n \div 10) \o Digits[(n % 10) + 1]

\* "%d" % n
FmtD(n) == IF n < 0 THEN "-" \o DecStr(0 - n) ELSE DecStr(n)

\* "%.0f" % x for x = t/10: round half to even, sign kept
FmtF0(t) ==
    LET mag == IF t < 0 THEN 0 - t ELSE t
        q == mag \div 10
        r == mag % 10
        n == IF r > 5 THEN q + 1
             ELSE IF r < 5 THEN q
             ELSE IF q % 2 = 0 THEN q ELSE q + 1
    IN (IF t < 0 THEN "-" ELSE "") \o DecStr(n)

RECURSIVE Pow2(_)
Pow2(n) == IF n = 0 THEN 1 ELSE 2 * Pow2(n - 1)

\* x << n
Shl(x, n) == x * Pow2(n)

\* x | y on naturals
RECURSIVE BitOr(_, _)
BitOr(x, y) == IF x = 0 THEN y
               ELSE IF y = 0 THEN x
               ELSE (IF x % 2 = 1 \/ y % 2 = 1 THEN 1 ELSE 0)
                    + 2 * BitOr(x \div 2, y \div 2)

\* a_receive_buf[k] with Python's 0-based index
At(buf, k) == buf[k + 1]

\* variant of U16: the two bytes taken in big-endian order
U16_bigendian(buf, lo) == BitOr(Shl(At(buf, lo), 8), At(buf, lo + 1))

U16(buf, lo) == BitOr(Shl(At(buf, lo + 1), 8), At(buf, lo))

\* Python integers do not overflow.  A value that may need 32 bits is kept
\* as two 16-bit halves, hi * 65536 + lo, on which << and | act half by half.
Wide(hi, lo) == [hi |-> hi, lo |-> lo]

\* x << n for x < 65536 and n < 32
ShlWide(x, n) == IF n >= 16 THEN Wide(Shl(x, n - 16) % 65536, 0)
                 ELSE Wide(Shl(x, n) \div 65536, Shl(x, n) % 65536)

\* a | b
BitOrWide(a, b) == Wide(BitOr(a.hi, b.hi), BitOr(a.lo, b.lo))

\* four digits, zero padded
Pad4(n) == Digits[(n \div 1000) + 1] \o Digits[((n \div 100) % 10) + 1]
           \o Digits[((n \div 10) % 10) + 1] \o Digits[(n % 10) + 1]

\* "%d" % w: 65536 = 6 * 10^4 + 5536, so the digits come in groups of four
FmtDWide(w) ==
    LET t0 == w.hi * 5536 + w.lo
        l0 == t0 % 10000
        t1 == w.hi * 6 + (t0 \div 10000)
        l1 == t1 % 10000
        l2 == t1 \div 10000
    IN IF l2 > 0 THEN DecStr(l2) \o Pad4(l1) \o Pad4(l0)
       ELSE IF l1 > 0 THEN DecStr(l1) \o Pad4(l0)
       ELSE DecStr(l0)

U32(buf, lo) == BitOrWide(BitOrWide(BitOrWide(ShlWide(At(buf, lo + 3), 24),
                                              ShlWide(At(buf, lo + 2), 16)),
                                    ShlWide(At(buf, lo + 1), 8)),
                          ShlWide(At(buf, lo), 0))

\* variant of BuildCsvdata: the timestamp is taken anew for every sample
BuildCsvdata_now(buf, t, power, current) ==
    <<t \o "+" \o FmtDWide(U32(buf, 36)), FmtDWide(U32(buf, 36)),
      FmtD(U16(buf, 5)), FmtF0(power), FmtD(U16(buf, 19)), FmtF0(current),
      FmtD(U16(buf, 11))>>

\* the list built at lines 106-113
BuildCsvdata(buf, t, power, current) ==
    <<t, FmtDWide(U32(buf, 36)), FmtD(U16(buf, 5)), FmtF0(power),
      FmtD(U16(buf, 19)), FmtF0(current), FmtD(U16(buf, 11))>>

(***************************************************************************)
(* create_file (lines 75-94).  openOK tells whether the environment lets  *)
(* open(csv_file_name, 'x') succeed on a name that does not exist.        *)
(***************************************************************************)
\* variant of create_file: no test for an existing file, mode 'w'
create_file_rewrite(f, p, openOK) ==
    IF f[p].kind = "dir"
    THEN [fs |-> f, raised |-> "IsADirectoryError", wrote |-> FALSE]
    ELSE IF ~openOK
    THEN [fs |-> f, raised |-> "OSError", wrote |-> FALSE]
    ELSE [fs |-> [f EXCEPT ![p] = File(writerow(<<>>, csvtitles))],
          raised |-> "none", wrote |-> TRUE]

create_file(f, p, openOK) ==
    IF isfile(f, p) /\ Lower(SplitExt(p)) = ".csv"
    THEN [fs |-> f, raised |-> "none", wrote |-> FALSE]
    ELSE IF f[p].kind # "none"
    THEN [fs |-> f, raised |-> "FileExistsError", wrote |-> FALSE]
    ELSE IF ~openOK
    THEN [fs |-> f, raised |-> "OSError", wrote |-> FALSE]
    ELSE [fs |-> [f EXCEPT ![p] = File(writerow(<<>>, csvtitles))],
          raised |-> "none", wrote |-> TRUE]

(***************************************************************************)
(* Initial state: the module-level statements (lines 38-54) have run.     *)
(***************************************************************************)
HeaderRow == writerow(<<>>, csvtitles)[1]
OldLog == File(writerow(<<HeaderRow>>, OldRow))

CsvPaths == {p \in Paths : Lower(SplitExt(p)) = ".csv"}

InitFs == {[p \in Paths |-> IF p \in CsvPaths THEN s ELSE NoFile] :
              s \in {NoFile, Dir, OldLog}}

Init ==
    /\ pc = "parse_args"
    /\ argv \in [runonce : BOOLEAN, csvfile : {NoArg} \cup ArgPaths]
    /\ runonce = FALSE
    /\ T \in Timestamps
    /\ csv_file = DefaultPath(T)
    /\ STOP_ON_ERR \in {0, 1}
    /\ fs \in InitFs
    /\ a_receive_buf = <<>>
    /\ i = 0
    /\ mainPower = NoValue
    /\ csvdata = <<>>
    /\ printed = <<>>
    /\ fdOpen = 0
    /\ exc = "none"
    /\ escaped = "none"
    /\ exitCode = 0 - 1
    /\ len0 = 0
    /\ successes = 0
    /\ sleeps = 0
    /\ faults = 0
    /\ calls = [p \in Paths |-> 0]
    /\ created = {}
    /\ lastCall = [path |-> NoArg, raised |-> "none"]
    /\ iterLog = <<>>
    /\ iterReads = <<>>
    /\ iterTel = <<NoValue, NoValue>>
    /\ iterPrinted = FALSE

(***************************************************************************)
(* parse_args (lines 57-72).                                               *)
(***************************************************************************)
parse_args ==
    /\ pc = "parse_args"
    /\ runonce' = argv.runonce
    /\ csv_file' = IF argv.csvfile # NoArg
                      /\ Lower(SplitExt(argv.csvfile)) = ".csv"
                   THEN argv.csvfile
                   ELSE csv_file
    /\ pc' = "create_file"
    /\ UNCHANGED <<argv, STOP_ON_ERR, T, fs, a_receive_buf, i, mainPower,
                   csvdata, printed, fdOpen, exc, escaped, exitCode, len0,
                   successes, sleeps, faults>>
    /\ UNCHANGED <<sinkVars, iterLog, iterVars>>

(***************************************************************************)
(* main, line 99: create_file(csv_file).  An exception raised here is      *)
(* outside the try statement and leaves main.                              *)
(***************************************************************************)
\* variant of CreateFile: create_file is called inside the try statement and
\* its exception is swallowed
CreateFile_swallow ==
    /\ pc = "create_file"
    /\ \E openOK \in BOOLEAN :
         LET r == create_file(fs, csv_file, openOK) IN
         /\ fs' = r.fs
         /\ calls' = [calls EXCEPT ![csv_file] = @ + 1]
         /\ created' = IF r.wrote THEN created \cup {csv_file} ELSE created
         /\ lastCall' = [path |-> csv_file, raised |-> r.raised]
         /\ printed' = IF r.wrote THEN csvtitles ELSE printed
         /\ pc' = "loop"
         /\ len0' = Len(r.fs[csv_file].rows)
         /\ UNCHANGED <<escaped, exitCode>>
    /\ UNCHANGED <<argv, runonce, csv_file, STOP_ON_ERR, T, a_receive_buf, i,
                   mainPower, csvdata, fdOpen, exc, successes, sleeps,
                   faults, iterLog, iterVars>>

CreateFile ==
    /\ pc = "create_file"
    /\ \E openOK \in BOOLEAN :
         LET r == create_file(fs, csv_file, openOK) IN
         /\ fs' = r.fs
         /\ calls' = [calls EXCEPT ![csv_file] = @ + 1]
         /\ created' = IF r.wrote THEN created \cup {csv_file} ELSE created
         /\ lastCall' = [path |-> csv_file, raised |-> r.raised]
         /\ printed' = IF r.wrote THEN csvtitles ELSE printed
         /\ IF r.raised = "none"
            THEN /\ pc' = "loop"
                 /\ len0' = Len(r.fs[csv_file].rows)
                 /\ UNCHANGED <<escaped, exitCode>>
            ELSE /\ pc' = "Fatal"
                 /\ escaped' = r.raised
                 /\ exitCode' = 1
                 /\ UNCHANGED len0
    /\ UNCHANGED <<argv, runonce, csv_file, STOP_ON_ERR, T, a_receive_buf, i,
                   mainPower, csvdata, fdOpen, exc, successes, sleeps,
                   faults, iterLog, iterVars>>


(***************************************************************************)
(* main, lines 100-103: the top of "while True" and the start of the try   *)
(* body.  The guard bounds the number of iterations that are explored.     *)
(***************************************************************************)
LoopTop ==
    /\ pc = "loop"
    /\ successes < MaxAppends
    /\ a_receive_buf' = <<0>>
    /\ i' = FirstReg
    /\ pc' = "read"
    /\ UNCHANGED <<argv, runonce, csv_file, STOP_ON_ERR, T, fs, mainPower,
                   csvdata, printed, fdOpen, exc, escaped, exitCode, len0,
                   successes, sleeps, faults>>
    /\ iterLog' = fs[csv_file].rows
    /\ iterReads' = <<>>
    /\ iterTel' = <<NoValue, NoValue>>
    /\ iterPrinted' = FALSE
    /\ UNCHANGED sinkVars

(***************************************************************************)
(* Lines 104-105: one bus.read_byte_data(SMB_DEVICE_ADDR, i) that answers. *)
(***************************************************************************)
\* variant of ReadByte: ina.power() is not called before the battery current
ReadByte_nopower ==
    /\ pc = "read"
    /\ \E b \in RegVals(i) : /\ a_receive_buf' = Append(a_receive_buf, b)
                             /\ iterReads' = Append(iterReads, b)
    /\ IF i + 1 < EndReg
       THEN i' = i + 1 /\ pc' = "read"
       ELSE i' = i /\ pc' = "current"
    /\ UNCHANGED <<argv, runonce, csv_file, STOP_ON_ERR, T, fs, mainPower,
                   csvdata, printed, fdOpen, exc, escaped, exitCode, len0,
                   successes, sleeps, faults>>
    /\ UNCHANGED <<sinkVars, iterLog, iterTel, iterPrinted>>

ReadByte ==
    /\ pc = "read"
    /\ \E b \in RegVals(i) : /\ a_receive_buf' = Append(a_receive_buf, b)
                             /\ iterReads' = Append(iterReads, b)
    /\ IF i + 1 < EndReg
       THEN i' = i + 1 /\ pc' = "read"
       ELSE i' = i /\ pc' = "power"
    /\ UNCHANGED <<argv, runonce, csv_file, STOP_ON_ERR, T, fs, mainPower,
                   csvdata, printed, fdOpen, exc, escaped, exitCode, len0,
                   successes, sleeps, faults>>
    /\ UNCHANGED <<sinkVars, iterLog, iterTel, iterPrinted>>

\* variant of HandlerFor: the bare except clause comes first
HandlerFor_bare(kind) == "except"

\* the except clause of lines 123-129 that matches an exception raised in
\* the try body: "except KeyboardInterrupt" first, the bare "except" second
HandlerFor(kind) == IF kind = "KeyboardInterrupt" THEN "sys_exit"
                    ELSE "except"

\* variant of Raise: the fault is caught around the failing call and the
\* iteration goes on to the append
Raise_continue(kind) ==
    /\ faults < MaxFaults
    /\ exc' = kind
    /\ pc' = "open"

\* a fault raised inside the try body; the guard bounds the faults explored
Raise(kind) ==
    /\ faults < MaxFaults
    /\ exc' = kind
    /\ pc' = HandlerFor(kind)

\* Lines 104-105: the bus read raises (smbus2 raises OSError)
ReadByteFault ==
    /\ pc = "read"
    /\ Raise("OSError(bus)")
    /\ UNCHANGED <<argv, runonce, csv_file, STOP_ON_ERR, T, fs, a_receive_buf,
                   i, mainPower, csvdata, printed, fdOpen, escaped, exitCode,
                   len0, successes, sleeps, faults>>
    /\ UNCHANGED <<sinkVars, iterLog, iterVars>>

TelemetryFaults == {"DeviceRangeError", "OSError(bus)"}

(***************************************************************************)
(* Line 110: ina.power().                                                  *)
(***************************************************************************)
Power ==
    /\ pc = "power"
    /\ \E p \in PowerVals : mainPower' = p /\ iterTel' = <<p, iterTel[2]>>
    /\ pc' = "current"
    /\ UNCHANGED <<argv, runonce, csv_file, STOP_ON_ERR, T, fs, a_receive_buf,
                   i, csvdata, printed, fdOpen, exc, escaped, exitCode, len0,
                   successes, sleeps, faults>>
    /\ UNCHANGED <<sinkVars, iterLog, iterReads, iterPrinted>>

PowerFault ==
    /\ pc = "power"
    /\ \E k \in TelemetryFaults : Raise(k)
    /\ UNCHANGED <<argv, runonce, csv_file, STOP_ON_ERR, T, fs, a_receive_buf,
                   i, mainPower, csvdata, printed, fdOpen, escaped, exitCode,
                   len0, successes, sleeps, faults>>
    /\ UNCHANGED <<sinkVars, iterLog, iterVars>>

(***************************************************************************)
(* Lines 112-113: ina_batteries.current(); the list csvdata is complete.  *)
(***************************************************************************)
\* variant of Current: csvdata is built by the first iteration only
Current_stale ==
    /\ pc = "current"
    /\ \E c \in CurrentVals :
         /\ csvdata' = IF csvdata = <<>>
                       THEN BuildCsvdata(a_receive_buf, T, mainPower, c)
                       ELSE csvdata
         /\ iterTel' = <<iterTel[1], c>>
    /\ mainPower' = NoValue
    /\ pc' = "print"
    /\ UNCHANGED <<argv, runonce, csv_file, STOP_ON_ERR, T, fs, a_receive_buf,
                   i, printed, fdOpen, exc, escaped, exitCode, len0,
                   successes, sleeps, faults>>
    /\ UNCHANGED <<sinkVars, iterLog, iterReads, iterPrinted>>

Current ==
    /\ pc = "current"
    /\ \E c \in CurrentVals :
         /\ csvdata' = BuildCsvdata(a_receive_buf, T, mainPower, c)
         /\ iterTel' = <<iterTel[1], c>>
    /\ mainPower' = NoValue
    /\ pc' = "print"
    /\ UNCHANGED <<argv, runonce, csv_file, STOP_ON_ERR, T, fs, a_receive_buf,
                   i, printed, fdOpen, exc, escaped, exitCode, len0,
                   successes, sleeps, faults>>
    /\ UNCHANGED <<sinkVars, iterLog, iterReads, iterPrinted>>

CurrentFault ==
    /\ pc = "current"
    /\ \E k \in TelemetryFaults : Raise(k)
    /\ mainPower' = NoValue
    /\ UNCHANGED <<argv, runonce, csv_file, STOP_ON_ERR, T, fs, a_receive_buf,
                   i, csvdata, printed, fdOpen, escaped, exitCode, len0,
                   successes, sleeps, faults>>
    /\ UNCHANGED <<sinkVars, iterLog, iterVars>>

(***************************************************************************)
(* Line 114: print(csvdata).                                               *)
(***************************************************************************)
\* variant of PrintCsvdata: the record is not printed
PrintCsvdata_silent ==
    /\ pc = "print"
    /\ pc' = "open"
    /\ UNCHANGED <<argv, runonce, csv_file, STOP_ON_ERR, T, fs, a_receive_buf,
                   i, mainPower, csvdata, printed, fdOpen, exc, escaped,
                   exitCode, len0, successes, sleeps, faults>>
    /\ UNCHANGED <<sinkVars, iterLog, iterVars>>

PrintCsvdata ==
    /\ pc = "print"
    /\ printed' = csvdata
    /\ iterPrinted' = TRUE
    /\ pc' = "open"
    /\ UNCHANGED <<argv, runonce, csv_file, STOP_ON_ERR, T, fs, a_receive_buf,
                   i, mainPower, csvdata, fdOpen, exc, escaped, exitCode,
                   len0, successes, sleeps, faults>>
    /\ UNCHANGED <<sinkVars, iterLog, iterReads, iterTel>>

\* Line 114: print raises (ValueError when sys.stdout is closed)
PrintFault ==
    /\ pc = "print"
    /\ Raise("ValueError")
    /\ UNCHANGED <<argv, runonce, csv_file, STOP_ON_ERR, T, fs, a_receive_buf,
                   i, mainPower, csvdata, printed, fdOpen, escaped, exitCode,
                   len0, successes, sleeps, faults>>
    /\ UNCHANGED <<sinkVars, iterLog, iterVars>>

(***************************************************************************)
(* Line 115: open(csv_file, 'a', newline='').                              *)
(***************************************************************************)
\* can open(p, 'a') succeed at all on this file system
CanOpenAppend(f, p) == f[p].kind # "dir"

\* the file system after a successful open(p, 'a')
open_append(f, p) == IF f[p].kind = "none" THEN [f EXCEPT ![p] = File(<<>>)]
                     ELSE f

OpenAppend ==
    /\ pc = "open"
    /\ CanOpenAppend(fs, csv_file)
    /\ fs' = open_append(fs, csv_file)
    /\ fdOpen' = fdOpen + 1
    /\ pc' = "write"
    /\ UNCHANGED <<argv, runonce, csv_file, STOP_ON_ERR, T, a_receive_buf, i,
                   mainPower, csvdata, printed, exc, escaped, exitCode, len0,
                   successes, sleeps, faults>>
    /\ UNCHANGED <<sinkVars, iterLog, iterVars>>

OpenAppendFault ==
    /\ pc = "open"
    /\ Raise("OSError(file)")
    /\ UNCHANGED <<argv, runonce, csv_file, STOP_ON_ERR, T, fs, a_receive_buf,
                   i, mainPower, csvdata, printed, fdOpen, escaped, exitCode,
                   len0, successes, sleeps, faults>>
    /\ UNCHANGED <<sinkVars, iterLog, iterVars>>

(***************************************************************************)
(* Lines 116-122: writerow, the end of the with block (close), and the     *)
(* test of runonce: break leaves the loop and main returns.                *)
(***************************************************************************)
\* variant of append_row: the file is opened with mode 'w'
append_row_truncate(f, p, data) ==
    [f EXCEPT ![p] = File(writerow(<<>>, data))]

append_row(f, p, data) == [f EXCEPT ![p] = File(writerow(f[p].rows, data))]

\* variants of AfterAppend: runonce not tested, and the sleep left out
AfterAppend_sleep(once) == "sleep"

AfterAppend_nosleep(once) == IF once THEN "Interrupted" ELSE "loop"

\* where control goes after line 117
AfterAppend(once) == IF once THEN "Interrupted" ELSE "sleep"

WriteRow ==
    /\ pc = "write"
    /\ fs' = append_row(fs, csv_file, csvdata)
    /\ fdOpen' = fdOpen - 1
    /\ successes' = successes + 1
    /\ pc' = AfterAppend(runonce)
    /\ exitCode' = IF pc' = "Interrupted" THEN 0 ELSE exitCode
    /\ UNCHANGED <<argv, runonce, csv_file, STOP_ON_ERR, T, a_receive_buf, i,
                   mainPower, csvdata, printed, exc, escaped, len0, sleeps,
                   faults>>
    /\ UNCHANGED <<sinkVars, iterLog, iterVars>>

\* variant of WriteRowFault: the file is not closed when the write raises
WriteRowFault_leak ==
    /\ pc = "write"
    /\ Raise("OSError(file)")
    /\ UNCHANGED <<argv, runonce, csv_file, STOP_ON_ERR, T, fs, a_receive_buf,
                   i, mainPower, csvdata, printed, fdOpen, escaped, exitCode,
                   len0, successes, sleeps, faults>>
    /\ UNCHANGED <<sinkVars, iterLog, iterVars>>

\* the write (or the flush at close) raises before any byte of the row has
\* reached the file; the with block closes the file
WriteRowFault ==
    /\ pc = "write"
    /\ Raise("OSError(file)")
    /\ fdOpen' = fdOpen - 1
    /\ UNCHANGED <<argv, runonce, csv_file, STOP_ON_ERR, T, fs, a_receive_buf,
                   i, mainPower, csvdata, printed, escaped, exitCode, len0,
                   successes, sleeps, faults>>
    /\ UNCHANGED <<sinkVars, iterLog, iterVars>>

(***************************************************************************)
(* Line 122: time.sleep(DELAY) runs to its end.                            *)
(***************************************************************************)
Sleep ==
    /\ pc = "sleep"
    /\ sleeps' = sleeps + 1
    /\ faults' = 0
    /\ pc' = "loop"
    /\ UNCHANGED <<argv, runonce, csv_file, STOP_ON_ERR, T, fs, a_receive_buf,
                   i, mainPower, csvdata, printed, fdOpen, exc, escaped,
                   exitCode, len0, successes>>
    /\ UNCHANGED <<sinkVars, iterLog, iterVars>>

(***************************************************************************)
(* Lines 125-129: the bare except clause.                                  *)
(***************************************************************************)
\* variants of Reraises: "raise" outside the if, and "raise" left out
Reraises_always(stop) == TRUE

Reraises_never(stop) == FALSE

\* TRUE when the handler re-raises
Reraises(stop) == stop = 1

\* variant of Handler: a single-shot run gives up after a swallowed fault
Handler_giveup ==
    /\ pc = "except"
    /\ IF Reraises(STOP_ON_ERR)
       THEN /\ pc' = "Fatal"
            /\ escaped' = exc
            /\ exitCode' = 1
            /\ UNCHANGED <<exc, faults>>
       ELSE /\ pc' = IF runonce THEN "Interrupted" ELSE "loop"
            /\ exitCode' = IF runonce THEN 0 ELSE exitCode
            /\ exc' = "none"
            /\ faults' = IF faults < MaxFaults THEN faults + 1 ELSE faults
            /\ UNCHANGED escaped
    /\ UNCHANGED <<argv, runonce, csv_file, STOP_ON_ERR, T, fs, a_receive_buf,
                   i, mainPower, csvdata, printed, fdOpen, len0, successes,
                   sleeps>>
    /\ UNCHANGED <<sinkVars, iterLog, iterVars>>

Handler ==
    /\ pc = "except"
    /\ IF Reraises(STOP_ON_ERR)
       THEN /\ pc' = "Fatal"
            /\ escaped' = exc
            /\ exitCode' = 1
            /\ UNCHANGED <<exc, faults>>
       ELSE /\ pc' = "loop"
            /\ exc' = "none"
            /\ faults' = IF faults < MaxFaults THEN faults + 1 ELSE faults
            /\ UNCHANGED <<escaped, exitCode>>
    /\ UNCHANGED <<argv, runonce, csv_file, STOP_ON_ERR, T, fs, a_receive_buf,
                   i, mainPower, csvdata, printed, fdOpen, len0, successes,
                   sleeps>>
    /\ UNCHANGED <<sinkVars, iterLog, iterVars>>

(***************************************************************************)
(* Ctrl-C (one per run).  Inside the try body (lines 103-122) the          *)
(* KeyboardInterrupt goes to the clause of line 123; a with block that is  *)
(* open closes its file on the way.                                        *)
(***************************************************************************)
TryPcs == {"read", "power", "current", "print", "open", "write", "sleep"}

Interrupt ==
    /\ pc \in TryPcs
    /\ exc' = "KeyboardInterrupt"
    /\ pc' = HandlerFor("KeyboardInterrupt")
    /\ fdOpen' = 0
    /\ mainPower' = NoValue
    /\ UNCHANGED <<argv, runonce, csv_file, STOP_ON_ERR, T, fs, a_receive_buf,
                   i, csvdata, printed, escaped, exitCode, len0, successes,
                   sleeps, faults>>
    /\ UNCHANGED <<sinkVars, iterLog, iterVars>>

(***************************************************************************)
(* Lines 123-124: sys.exit() ends the process with status 0.               *)
(***************************************************************************)
SysExit ==
    /\ pc = "sys_exit"
    /\ pc' = "Interrupted"
    /\ escaped' = "SystemExit"
    /\ exitCode' = 0
    /\ UNCHANGED <<argv, runonce, csv_file, STOP_ON_ERR, T, fs, a_receive_buf,
                   i, mainPower, csvdata, printed, fdOpen, exc, len0,
                   successes, sleeps, faults>>
    /\ UNCHANGED <<sinkVars, iterLog, iterVars>>

(***************************************************************************)
(* Ctrl-C outside the try body: before the loop, inside the except clause  *)
(* and at the jump back to line 100.  Nothing catches it.                  *)
(***************************************************************************)
OutsideTryPcs == {"parse_args", "create_file", "loop", "except"}

InterruptOutsideTry ==
    /\ pc \in OutsideTryPcs
    /\ pc' = "Fatal"
    /\ escaped' = "KeyboardInterrupt"
    /\ exitCode' = 130
    /\ UNCHANGED <<argv, runonce, csv_file, STOP_ON_ERR, T, fs, a_receive_buf,
                   i, mainPower, csvdata, printed, fdOpen, exc, len0,
                   successes, sleeps, faults>>
    /\ UNCHANGED <<sinkVars, iterLog, iterVars>>

Next ==
    \/ parse_args
    \/ CreateFile
    \/ LoopTop
    \/ ReadByte
    \/ ReadByteFault
    \/ Power
    \/ PowerFault
    \/ Current
    \/ CurrentFault
    \/ PrintCsvdata
    \/ PrintFault
    \/ OpenAppend
    \/ OpenAppendFault
    \/ WriteRow
    \/ WriteRowFault
    \/ Sleep
    \/ Handler
    \/ Interrupt
    \/ SysExit
    \/ InterruptOutsideTry

Spec == Init /\ [][Next]_vars

\* the state of the sampling loop, in the words of the design
LoopState == IF pc \in {"Interrupted", "Fatal"} THEN pc
             ELSE IF pc \in {"parse_args", "create_file"} THEN "Start"
             ELSE "Sampling"

TypeOK ==
    /\ pc \in {"parse_args", "create_file", "loop", "except", "sys_exit",
               "Interrupted", "Fatal"} \cup TryPcs
    /\ fdOpen \in 0..1
    /\ successes \in 0..MaxAppends
    /\ faults \in 0..MaxFaults
    /\ Len(a_receive_buf) <= EndReg


(***************************************************************************)
(* The log sink on its own: create_file called on any path of any file     *)
(* system, as often as MaxCalls allows.                                    *)
(***************************************************************************)
SinkFiles == {NoFile, Dir, File(<<>>), File(<<HeaderRow>>), OldLog}

InitSink ==
    /\ pc = "sink"
    /\ argv = [runonce |-> FALSE, csvfile |-> NoArg]
    /\ runonce = FALSE
    /\ T \in Timestamps
    /\ csv_file = DefaultPath(T)
    /\ STOP_ON_ERR = 0
    /\ fs \in [Paths -> SinkFiles]
    /\ a_receive_buf = <<>>
    /\ i = 0
    /\ mainPower = NoValue
    /\ csvdata = <<>>
    /\ printed = <<>>
    /\ fdOpen = 0
    /\ exc = "none"
    /\ escaped = "none"
    /\ exitCode = 0 - 1
    /\ len0 = 0
    /\ successes = 0
    /\ sleeps = 0
    /\ faults = 0
    /\ calls = [p \in Paths |-> 0]
    /\ created = {}
    /\ lastCall = [path |-> NoArg, raised |-> "none"]
    /\ iterLog = <<>>
    /\ iterReads = <<>>
    /\ iterTel = <<NoValue, NoValue>>
    /\ iterPrinted = FALSE

EnsureLog ==
    /\ pc = "sink"
    /\ \E p \in Paths, openOK \in BOOLEAN :
         LET r == create_file(fs, p, openOK) IN
         /\ calls[p] < MaxCalls
         /\ fs' = r.fs
         /\ calls' = [calls EXCEPT ![p] = @ + 1]
         /\ created' = IF r.wrote THEN created \cup {p} ELSE created
         /\ lastCall' = [path |-> p, raised |-> r.raised]
         /\ printed' = IF r.wrote THEN csvtitles ELSE printed
    /\ UNCHANGED <<pc, argv, runonce, csv_file, STOP_ON_ERR, T, a_receive_buf,
                   i, mainPower, csvdata, fdOpen, exc, escaped, exitCode,
                   len0, successes, sleeps, faults, iterLog, iterVars>>

NextSink == EnsureLog

SpecSink == InitSink /\ [][NextSink]_vars

(***************************************************************************)
(* Properties.                                                             *)
(***************************************************************************)
TransientKinds == {"OSError(bus)", "DeviceRangeError"}
FaultKinds == TransientKinds \cup {"OSError(file)", "ValueError"}

\* the rows of the log file of this run
LogRows == fs[csv_file].rows

\* main got past line 99
Entered == lastCall.path = csv_file /\ lastCall.raised = "none"
             /\ pc \notin {"parse_args", "create_file", "sink"}

\* a Ctrl-C was delivered in this run
GotCtrlC == exc = "KeyboardInterrupt" \/ escaped = "KeyboardInterrupt"

\* C1: whenever opening or writing the log file fails during an iteration's
\* append, the loop goes to Fatal, for either value of STOP_ON_ERR; the
\* failure is never swallowed and no further iteration starts.
C1_PersistenceFaultFatal ==
    [][(pc = "except" /\ exc = "OSError(file)") => pc' = "Fatal"]_vars

\* C2: with STOP_ON_ERR = 0, once a register read, ina.power() or
\* ina_batteries.current() has raised in an iteration, the log holds the rows
\* it held when the iteration began, up to the start of the next iteration.
C2_FailureIsolation ==
    (STOP_ON_ERR = 0 /\ Entered
       /\ (exc \in TransientKinds \/ (pc = "loop" /\ faults > 0)))
    => /\ LogRows = iterLog
       /\ Len(LogRows) = len0 + successes

C2_Witness ==
    /\ STOP_ON_ERR = 0 /\ pc = "loop" /\ faults > 0 /\ successes = 1
    /\ Len(LogRows) = 2

\* C3: with STOP_ON_ERR = 0 and no Ctrl-C, faults never end the loop: no
\* exception leaves main, the loop stays in Sampling unless a single-shot
\* run has appended its row, and a log created by this run holds only its
\* header while no iteration has succeeded.
C3_TransientFaultsKeepSampling ==
    (STOP_ON_ERR = 0 /\ Entered /\ ~GotCtrlC)
    => /\ pc # "Fatal"
       /\ escaped = "none"
       /\ (pc = "Interrupted" => runonce /\ successes = 1)
       /\ (pc # "Interrupted" => LoopState = "Sampling" /\ exitCode = 0 - 1)
       /\ (successes = 0 /\ csv_file \in created => LogRows = <<HeaderRow>>)

C3_Witness ==
    /\ STOP_ON_ERR = 0 /\ pc = "loop" /\ faults = 3 /\ successes = 0
    /\ csv_file \in created /\ LogRows = <<HeaderRow>>

\* C4: with STOP_ON_ERR = 1 the first fault of an iteration's reads ends the
\* run in Fatal: nothing is swallowed, the exception leaves main with a
\* non-zero status, the log keeps the rows it had when the iteration began,
\* and no step is taken in Fatal.
C4_Inv ==
    (STOP_ON_ERR = 1 /\ Entered)
    => /\ faults = 0
       /\ (exc \in FaultKinds => pc \in {"except", "Fatal"} /\ LogRows = iterLog)
       /\ (pc = "Fatal" /\ ~GotCtrlC
             => escaped = exc /\ exc \in FaultKinds /\ exitCode = 1)

C4_Step ==
    /\ (pc = "except" /\ STOP_ON_ERR = 1)
         => (pc' = "Fatal" /\ exitCode' \notin {0, 0 - 1} /\ fs' = fs
               /\ successes' = successes /\ sleeps' = sleeps)
    /\ pc = "Fatal" => UNCHANGED vars

\* C4: with STOP_ON_ERR = 1 the first fault is fatal (C4_Inv in every state,
\* C4_Step on every step).
C4_StopOnErrFatal == [](C4_Inv) /\ [][C4_Step]_vars

C4_Witness ==
    /\ STOP_ON_ERR = 1 /\ pc = "Fatal" /\ escaped \in TransientKinds
    /\ successes = 1 /\ Len(LogRows) = len0 + 1

\* C5: a Ctrl-C that arrives during a register read, a telemetry read, the
\* print, the append or the sleep goes to line 123 and ends the run in
\* Interrupted with status 0, for either value of STOP_ON_ERR; the bare
\* except never sees it, the sleep it cut short is not completed and no row
\* is appended after it.
C5_Inv ==
    /\ exc = "KeyboardInterrupt" => pc \in {"sys_exit", "Interrupted"}
    /\ (pc = "Interrupted" /\ exc = "KeyboardInterrupt")
         => exitCode = 0 /\ escaped = "SystemExit" /\ fdOpen = 0

C5_Step ==
    /\ (exc' = "KeyboardInterrupt" /\ exc # "KeyboardInterrupt")
         => /\ pc \in TryPcs /\ pc' = "sys_exit"
            /\ fs' = fs /\ sleeps' = sleeps /\ successes' = successes
    /\ pc = "sys_exit"
         => /\ pc' = "Interrupted" /\ exitCode' = 0
            /\ fs' = fs /\ sleeps' = sleeps /\ successes' = successes
    /\ pc = "Interrupted" => UNCHANGED vars

C6_RunOnce ==
    (runonce /\ Entered)
    => /\ sleeps = 0 /\ pc # "sleep"
       /\ successes <= 1
       /\ (successes = 1
             => /\ pc = "Interrupted" /\ exitCode = 0 /\ escaped = "none"
                /\ Len(LogRows) = len0 + 1)
       /\ (pc = "Interrupted" /\ ~GotCtrlC => successes = 1)

C6_Witness ==
    /\ runonce /\ pc = "Interrupted" /\ successes = 1 /\ sleeps = 0
    /\ escaped = "none" /\ faults > 0

\* C7: while an iteration is reading, printing or appending, every row
\* appended earlier in the run has been followed by a completed sleep, and
\* while the loop sleeps exactly the last append is still waiting for it.
C7_Cadence ==
    Entered
    => /\ (pc \in {"read", "power", "current", "print", "open", "write"}
             => sleeps = successes)
       /\ (pc = "sleep" => sleeps + 1 = successes)

C7_Witness == pc = "write" /\ successes = 1 /\ sleeps = 1 /\ ~runonce

\* C8: after a fault that was swallowed the next register read does not
\* begin until a wait has taken place.
C8_WaitAfterFault == pc = "read" => faults = 0

\* C9: create_file writes the header only when it creates the file: a call
\* on an existing .csv file raises nothing and leaves the file system as it
\* is, a call that creates a file leaves exactly the header row in it, and a
\* file created by create_file still holds exactly that one row after any
\* further calls.
C9_Step ==
    pc = "sink"
    => LET p == lastCall'.path IN
       /\ (isfile(fs, p) /\ Lower(SplitExt(p)) = ".csv")
            => fs' = fs /\ lastCall'.raised = "none" /\ created' = created
       /\ p \in created' \ created
            => /\ fs[p] = NoFile
               /\ fs' = [fs EXCEPT ![p] = File(<<HeaderRow>>)]
       /\ p \notin created' \ created => fs' = fs

C9_Inv == pc = "sink" => \A p \in created : fs[p] = File(<<HeaderRow>>)

\* C9: the header is written once, by the call that creates the file
\* (C9_Inv in every state, C9_Step on every step).
C9_IdempotentHeader == [](C9_Inv) /\ [][C9_Step]_vars

C9_Witness ==
    /\ pc = "sink"
    /\ \E p \in created : /\ calls[p] = 2 /\ Lower(SplitExt(p)) = ".csv"
                          /\ lastCall = [path |-> p, raised |-> "none"]
                          /\ fs[p].rows = <<HeaderRow>>

\* C10: the log only grows at its end: a step of the loop either leaves the
\* file system alone or completes one iteration and adds exactly the quoted
\* csvdata after the rows that were there; the rows added by the run are as
\* many as its successful iterations.
C10_Inv == Entered => Len(LogRows) = len0 + successes

C10_Step ==
    (pc \notin {"parse_args", "create_file", "sink"})
    => /\ csv_file' = csv_file
       /\ successes' = successes => fs' = fs
       /\ successes' # successes
            => /\ successes' = successes + 1
               /\ fs'[csv_file].kind = "file"
               /\ Len(fs'[csv_file].rows) = Len(LogRows) + 1
               /\ SubSeq(fs'[csv_file].rows, 1, Len(LogRows)) = LogRows
               /\ fs'[csv_file].rows[Len(LogRows) + 1]
                    = [k \in 1..7 |-> Quote(csvdata[k])]
               /\ \A q \in Paths \ {csv_file} : fs'[q] = fs[q]

\* C10: the log is append-only (C10_Inv in every state, C10_Step on every
\* step).
C10_AppendOnly == [](C10_Inv) /\ [][C10_Step]_vars

C10_Witness == pc = "sleep" /\ successes = 2 /\ len0 = 2 /\ Len(LogRows) = 4


\* C12: every row this run has appended carries the session timestamp T,
\* and no step changes T.
C12_Inv ==
    Entered => \A k \in (len0 + 1)..Len(LogRows) : LogRows[k][1] = Quote(T)

C12_OneTimestamp == [](C12_Inv) /\ [][T' = T]_vars

C12_Witness ==
    /\ pc = "sleep" /\ successes = 2 /\ len0 = 2
    /\ LogRows[3][1] = Quote(T) /\ LogRows[4][1] = Quote(T)
    /\ LogRows[2][1] # Quote(T)

\* C13: with STOP_ON_ERR = 0 an exception of the iteration that is neither
\* a bus fault, a range fault nor a log-file fault is not swallowed: the
\* bare except clause lets it end the run in Fatal.
C13_OnlyTransientSwallowed ==
    [][(pc = "except" /\ STOP_ON_ERR = 0
          /\ exc \notin TransientKinds \cup {"OSError(file)"})
       => pc' = "Fatal"]_vars

\* the record of the current iteration has been built (lines 106-113)
Decoded == iterTel[2] # NoValue

\* the row the current iteration has to append, from what it read itself
IterRow ==
    LET data == BuildCsvdata(<<0>> \o iterReads, T, iterTel[1], iterTel[2])
    IN [k \in 1..7 |-> Quote(data[k])]

\* an iteration has begun and has appended its row
Appended == Entered /\ a_receive_buf # <<>> /\ LogRows # iterLog

\* C14: the snapshot grows by one byte per register read, in ascending
\* register order from index 0 = 0, and a record is decoded, printed or
\* appended only from a snapshot of exactly 255 bytes made of the 254 bytes
\* read in the same iteration.
C14_FullSnapshot ==
    /\ pc = "read"
         => /\ i \in 1..254 /\ Len(a_receive_buf) = i
            /\ a_receive_buf = <<0>> \o iterReads
    /\ (pc \in {"power", "current"} \/ Decoded \/ iterPrinted \/ Appended)
         => /\ Len(a_receive_buf) = 255
            /\ Len(iterReads) = 254
            /\ a_receive_buf = <<0>> \o iterReads
            /\ \A r \in 1..254 : a_receive_buf[r + 1] \in RegVals(r)

C14_Witness ==
    /\ pc = "write" /\ faults > 0 /\ Len(a_receive_buf) = 255
    /\ a_receive_buf[255] = 254 /\ a_receive_buf[1] = 0

\* C15: the row an iteration appends is built from the bytes and the two
\* telemetry values read in that same iteration, and from nothing read
\* earlier.
C15_NoMixing ==
    [][successes' = successes + 1
         => fs'[csv_file].rows[Len(LogRows) + 1] = IterRow]_vars

C15_Witness ==
    /\ pc = "sleep" /\ successes = 2 /\ faults > 0
    /\ LogRows[len0 + 1] # LogRows[len0 + 2]
    /\ LogRows[len0 + 2] = IterRow

\* C16: the record is printed before it is appended: while the log file is
\* being opened or written the record of this iteration has been printed,
\* and the row that is appended is the record printed in this iteration.
C16_Inv ==
    /\ pc \in {"open", "write"} => iterPrinted /\ printed = csvdata
    /\ Appended => iterPrinted

C16_Step ==
    successes' = successes + 1
    => /\ iterPrinted
       /\ fs'[csv_file].rows[Len(LogRows) + 1]
            = [k \in 1..7 |-> Quote(printed[k])]

\* C16: print precedes append (C16_Inv in every state, C16_Step on every
\* step).
C16_PrintBeforeAppend == [](C16_Inv) /\ [][C16_Step]_vars

C16_Witness ==
    /\ pc = "sleep" /\ successes = 1 /\ iterPrinted /\ printed = csvdata
    /\ LogRows[Len(LogRows)] = [k \in 1..7 |-> Quote(printed[k])]

\* C17: at most one descriptor on the log file is ever open, and only
\* between the open of line 115 and the end of the with block: none is open
\* at the top of the loop, during the reads, the print and the sleep, in the
\* except clauses and in the terminal states; every step that leaves the
\* write closes it.
C17_Inv ==
    /\ fdOpen \in 0..1
    /\ pc # "write" => fdOpen = 0

C17_Step ==
    /\ pc = "write" => fdOpen' = 0
    /\ fdOpen' > fdOpen => pc = "open" /\ pc' = "write"

\* C17: the log file is closed on every exit path (C17_Inv in every state,
\* C17_Step on every step).
C17_FileClosed == [](C17_Inv) /\ [][C17_Step]_vars

C17_Witness ==
    /\ pc = "except" /\ exc = "OSError(file)" /\ fdOpen = 0 /\ successes = 1

\* C18: the steps of an iteration come in a fixed order: register i is read
\* when registers 1..i-1 have been read in this iteration and nothing else
\* has been done, power is read after all 254 bytes, current after power,
\* the print after current, the append after the print; a new iteration
\* begins only from the top of the loop, after the previous one has appended
\* and slept or has been abandoned.
C18_Step ==
    /\ (iterReads' # iterReads /\ iterReads' # <<>>)
         => /\ pc = "read" /\ i = Len(iterReads) + 1
            /\ Len(iterReads') = Len(iterReads) + 1
            /\ iterTel = <<NoValue, NoValue>> /\ ~iterPrinted
            /\ LogRows = iterLog
    /\ (iterTel'[1] # iterTel[1] /\ iterTel'[1] # NoValue)
         => /\ Len(iterReads) = 254 /\ iterTel = <<NoValue, NoValue>>
            /\ ~iterPrinted /\ LogRows = iterLog
    /\ (iterTel'[2] # iterTel[2] /\ iterTel'[2] # NoValue)
         => /\ Len(iterReads) = 254 /\ iterTel[1] # NoValue
            /\ iterTel[2] = NoValue /\ ~iterPrinted /\ LogRows = iterLog
    /\ (iterPrinted' /\ ~iterPrinted)
         => Len(iterReads) = 254 /\ Decoded /\ LogRows = iterLog
    /\ successes' = successes + 1
         => Len(iterReads) = 254 /\ Decoded /\ iterPrinted
    /\ (pc' = "read" /\ pc # "read")
         => /\ pc = "loop"
            /\ \/ a_receive_buf = <<>>
               \/ Appended /\ sleeps = successes
               \/ faults > 0

C18_StepOrder == [][C18_Step]_vars

C18_Witness ==
    /\ pc = "read" /\ successes = 1 /\ sleeps = 1 /\ faults = 0
    /\ Len(iterReads) = 100

\* C19: create_file is called at most once, on csv_file, and before any
\* register read; when it raises, for either value of STOP_ON_ERR the run is
\* over with that exception and status 1, no register has been read and no
\* row has been written.
C19_Inv ==
    /\ \A p \in Paths : calls[p] <= 1 /\ (calls[p] = 1 => p = csv_file)
    /\ pc \in {"parse_args", "create_file"} => calls[csv_file] = 0
    /\ a_receive_buf # <<>>
         => calls[csv_file] = 1 /\ lastCall.raised = "none"
    /\ lastCall.raised # "none"
         => /\ pc = "Fatal" /\ escaped = lastCall.raised /\ exitCode = 1
            /\ a_receive_buf = <<>> /\ iterReads = <<>>
            /\ successes = 0 /\ sleeps = 0
            /\ fs[csv_file].rows = <<>> /\ csv_file \notin created

C19_CreateFileOnce == (pc \notin {"sink", "decode", "decoded"}) => C19_Inv

C19_Witness ==
    /\ pc = "Fatal" /\ lastCall = [path |-> csv_file, raised |-> "OSError"]
    /\ STOP_ON_ERR = 0 /\ fs[csv_file] = NoFile

\* C20: in single-shot mode with STOP_ON_ERR = 0 a swallowed fault sends the
\* loop back to its top and the top starts another attempt; unless a Ctrl-C
\* came, the run is over only when exactly one row has been appended.
C20_Inv ==
    (runonce /\ STOP_ON_ERR = 0 /\ Entered /\ ~GotCtrlC
       /\ pc \in {"Interrupted", "Fatal"})
    => /\ pc = "Interrupted" /\ exitCode = 0
       /\ successes = 1 /\ Len(LogRows) = len0 + 1

C20_Step ==
    (runonce /\ STOP_ON_ERR = 0 /\ escaped' # "KeyboardInterrupt")
    => /\ pc = "except" => pc' = "loop" /\ fs' = fs
       /\ pc = "loop" => pc' = "read"

\* C20: a single-shot run retries until one iteration succeeds (C20_Inv in
\* every state, C20_Step on every step).
C20_RunOnceRetries == [](C20_Inv) /\ [][C20_Step]_vars

C20_Witness ==
    /\ runonce /\ STOP_ON_ERR = 0 /\ pc = "Interrupted" /\ escaped = "none"
    /\ faults = 3 /\ successes = 1

(***************************************************************************)
(* The decoding of lines 106-113 on its own: csvdata is built from any     *)
(* snapshot whose decoded bytes are drawn from ByteSamples and whose       *)
(* other bytes follow one of the Backgrounds.                              *)
(***************************************************************************)
DecodedOffsets == {5, 6, 11, 12, 19, 20, 36, 37, 38, 39}
ByteSamples(o) == IF o \in {5, 6, 36, 39} THEN {0, 128, 255} ELSE {0, 255}
Backgrounds == {"ramp", "ones"}

Background(bg, r) == IF bg = "ramp" THEN r % 256 ELSE 255

\* the list a_receive_buf after the for loop of lines 103-105
Snapshot(bg, f) ==
    [k \in 1..EndReg |-> IF k = 1 THEN 0
                         ELSE IF (k - 1) \in DecodedOffsets THEN f[k - 1]
                         ELSE Background(bg, k - 1)]

InitDecode ==
    /\ pc = "decode"
    /\ argv = [runonce |-> FALSE, csvfile |-> NoArg]
    /\ runonce = FALSE
    /\ T \in Timestamps
    /\ csv_file = DefaultPath(T)
    /\ STOP_ON_ERR = 0
    /\ fs = [p \in Paths |-> NoFile]
    /\ \E bg \in Backgrounds, f \in [DecodedOffsets -> {0, 128, 255}] :
         /\ \A o \in DecodedOffsets : f[o] \in ByteSamples(o)
         /\ a_receive_buf = Snapshot(bg, f)
    /\ i = EndReg - 1
    /\ mainPower \in PowerVals
    /\ csvdata = <<>>
    /\ printed = <<>>
    /\ fdOpen = 0
    /\ exc = "none"
    /\ escaped = "none"
    /\ exitCode = 0 - 1
    /\ len0 = 0
    /\ successes = 0
    /\ sleeps = 0
    /\ faults = 0
    /\ calls = [p \in Paths |-> 0]
    /\ created = {}
    /\ lastCall = [path |-> NoArg, raised |-> "none"]
    /\ iterLog = <<>>
    /\ iterReads = <<>>
    /\ iterTel = <<NoValue, NoValue>>
    /\ iterPrinted = FALSE

Decode ==
    /\ pc = "decode"
    /\ \E c \in CurrentVals :
         csvdata' = BuildCsvdata(a_receive_buf, T, mainPower, c)
    /\ pc' = "decoded"
    /\ UNCHANGED <<argv, runonce, csv_file, STOP_ON_ERR, T, fs, a_receive_buf,
                   i, mainPower, printed, fdOpen, exc, escaped, exitCode,
                   len0, successes, sleeps, faults>>
    /\ UNCHANGED <<sinkVars, iterLog, iterVars>>

NextDecode == Decode

SpecDecode == InitDecode /\ [][NextDecode]_vars

\* C11: every decoded field is the little-endian value of its bytes at the
\* fixed offsets: volts from bytes 5-6, remaining % from 19-20, temperature
\* from 11-12 (each in 0..65535), uptime from 36-39 (in 0..2^32-1, written
\* here as byte39 * 256 + byte38 over byte37 * 256 + byte36, both halves in
\* 0..65535); no other byte of the snapshot enters these fields.
C11_LittleEndian ==
    pc = "decoded"
    => LET b == [k \in 0..(EndReg - 1) |-> a_receive_buf[k + 1]]
           volts == b[6] * 256 + b[5]
           remaining == b[20] * 256 + b[19]
           temp == b[12] * 256 + b[11]
           uptime == Wide(b[39] * 256 + b[38], b[37] * 256 + b[36])
       IN /\ csvdata[3] = FmtD(volts) /\ volts \in 0..65535
          /\ csvdata[5] = FmtD(remaining) /\ remaining \in 0..65535
          /\ csvdata[7] = FmtD(temp) /\ temp \in 0..65535
          /\ csvdata[2] = FmtDWide(uptime)
          /\ uptime.hi \in 0..65535 /\ uptime.lo \in 0..65535
          /\ Len(csvdata) = 7

C11_Witness ==
    /\ pc = "decoded"
    /\ a_receive_buf[6] = 128 /\ a_receive_buf[7] = 255
    /\ a_receive_buf[40] = 255 /\ a_receive_buf[39] = 0
    /\ a_receive_buf[38] = 0 /\ a_receive_buf[37] = 128
    /\ a_receive_buf[50] = 255
    /\ csvdata[3] = "65408"
    /\ csvdata[2] = "4278190208"

====
